---- MODULE Spec2Model ----
(***************************************************************************)
(* Model of .openhands/microagents/llmify.py: main() opens the output,     *)
(* writes the banner and calls process_directory(), which walks the tree,  *)
(* filters the files, sorts them and writes one section per file.          *)
(*                                                                         *)
(* Strings are sequences of code points, paths are sequences of            *)
(* components, file contents are sequences of runs [b |-> byte, n |-> k]   *)
(* (k copies of byte b).  The output document is the sequence of the       *)
(* strings handed to output_file.write(), one token per call.              *)
(***************************************************************************)
EXTENDS Integers, Sequences, FiniteSets, TLC

VARIABLES
    fs,         \* the directory tree: relative path -> file state
    rootOk,     \* base_dir exists and can be listed
    sinkOk,     \* the output sink accepts writes
    pc,         \* position of the program
    walkStack,  \* os.walk: directories still to list (top of stack last)
    curRoot,    \* os.walk: the directory being yielded ("root")
    pending,    \* os.walk: "files" of the yielded directory not yet looped over
    all_files,  \* process_directory: all_files
    idx,        \* process_directory: position of the second loop in all_files
    content,    \* process_directory: content read from the current file
    doc,        \* tokens written to output_file
    out,        \* lines printed to standard output
    err,        \* lines printed to standard error
    probed,     \* history: what the first loop decided for each entry
    failedRead, \* history: entries whose content read raised
    sinkErr,    \* history: some output_file.write() raised
    runNo,      \* which run of main() this is
    prevDoc     \* document of the previous run

vars == <<fs, rootOk, sinkOk, pc, walkStack, curRoot, pending, all_files, idx,
          content, doc, out, err, probed, failedRead, sinkErr, runNo, prevDoc>>

\* Largest number of files in the initial tree.
MaxFiles == 2

\* is_text_file reads the first 1024 bytes.
ProbeWindow == 1024

(***************************************************************************)
(* Strings                                                                 *)
(***************************************************************************)
\* 'llmify'
LLMIFY == <<108, 108, 109, 105, 102, 121>>
\* '.md.llm'
MD_LLM == <<46, 109, 100, 46, 108, 108, 109>>

\* The "/" PurePosixPath joins components with.
Sep == <<47>>

\* str.startswith
StartsWith(s, p) == Len(s) >= Len(p) /\ SubSeq(s, 1, Len(p)) = p

\* str.endswith
EndsWith(s, p) == Len(s) >= Len(p) /\ SubSeq(s, Len(s) - Len(p) + 1, Len(s)) = p

\* str.__lt__: code point order, a proper prefix is smaller
RECURSIVE StrLess(_, _)
StrLess(s, t) ==
    IF s = <<>> THEN t # <<>>
    ELSE IF t = <<>> THEN FALSE
    ELSE IF Head(s) # Head(t) THEN Head(s) < Head(t)
    ELSE StrLess(Tail(s), Tail(t))

(***************************************************************************)
(* Paths                                                                   *)
(***************************************************************************)
\* base_dir, one component "r"
BaseDir == << <<114>> >>

\* str(path): the components joined with "/"
RECURSIVE PathStr(_)
PathStr(p) ==
    IF p = <<>> THEN <<>>
    ELSE IF Len(p) = 1 THEN Head(p)
    ELSE Head(p) \o Sep \o PathStr(Tail(p))

\* PurePath.__lt__: the lists of components compared as Python lists
RECURSIVE PathLess(_, _)
PathLess(p, q) ==
    IF p = <<>> THEN q # <<>>
    ELSE IF q = <<>> THEN FALSE
    ELSE IF Head(p) # Head(q) THEN StrLess(Head(p), Head(q))
    ELSE PathLess(Tail(p), Tail(q))

\* A faulty variant of Insert: the element is put in front without comparing.
Insert_Front(x, s) == <<x>> \o s

\* The place of x in the sorted list s.
RECURSIVE Insert(_, _)
Insert(x, s) ==
    IF s = <<>> THEN <<x>>
    ELSE IF PathLess(x, Head(s)) THEN <<x>> \o s
    ELSE <<Head(s)>> \o Insert(x, Tail(s))

\* A faulty variant of SortPaths: the list is left in enumeration order.
SortPaths_NoSort(s) == s

\* all_files.sort()
RECURSIVE SortPaths(_)
SortPaths(s) == IF s = <<>> THEN <<>> ELSE Insert(Head(s), SortPaths(Tail(s)))

IsPrefix(p, q) == Len(p) <= Len(q) /\ SubSeq(q, 1, Len(p)) = p

\* file_path.relative_to(base_dir); raises ValueError when base is no prefix
CanRelativeTo(fp, base) == IsPrefix(base, fp)
RelativeTo(fp, base) == SubSeq(fp, Len(base) + 1, Len(fp))

(***************************************************************************)
(* The directory tree                                                      *)
(***************************************************************************)
NameA     == <<97>>
NameB     == <<98>>
NameC     == <<99>>
NameATxt  == <<97, 46, 116, 120, 116>>
NameXOut  == <<120>> \o MD_LLM
NameTool  == LLMIFY \o <<46, 112, 121>>
NameXTool == <<120>> \o LLMIFY

\* a.txt, a/b, llmify.py, a/x.md.llm, llmify/c, xllmify
Candidates ==
    << <<NameATxt>>, <<NameA, NameB>>, <<NameTool>>, <<NameA, NameXOut>>,
       <<LLMIFY, NameC>>, <<NameXTool>> >>

Paths == {Candidates[i] : i \in DOMAIN Candidates}

IndexOf(p) == CHOOSE i \in DOMAIN Candidates : Candidates[i] = p

Absent == [present |-> FALSE, readable |-> FALSE, bytes |-> <<>>]

\* Text with an invalid UTF-8 byte and a CRLF line end, different for each path.
TextBytes(p) ==
    << [b |-> 96 + IndexOf(p), n |-> 1], [b |-> 255, n |-> 1],
       [b |-> 13, n |-> 1], [b |-> 10, n |-> 1] >>

\* bytes 00 01 02
BinBytes == << [b |-> 0, n |-> 1], [b |-> 1, n |-> 1], [b |-> 2, n |-> 1] >>

\* A null byte right after the probed window.
LateBytes(p) == << [b |-> 96 + IndexOf(p), n |-> ProbeWindow], [b |-> 0, n |-> 1] >>

\* The states a file can start in: 0 absent, 1 text, 2 binary, 3 text with a
\* null byte after the probed window, 4 text that cannot be opened.
FileState(p, k) ==
    IF k = 0 THEN Absent
    ELSE IF k = 1 THEN [present |-> TRUE, readable |-> TRUE,  bytes |-> TextBytes(p)]
    ELSE IF k = 2 THEN [present |-> TRUE, readable |-> TRUE,  bytes |-> BinBytes]
    ELSE IF k = 3 THEN [present |-> TRUE, readable |-> TRUE,  bytes |-> LateBytes(p)]
    ELSE [present |-> TRUE, readable |-> FALSE, bytes |-> TextBytes(p)]

Present(p) == fs[p].present

\* The directory d (relative to base_dir) exists.
DirExists(d) ==
    IF d = <<>> THEN rootOk
    ELSE \E q \in Paths : Present(q) /\ Len(q) > Len(d) /\ IsPrefix(d, q)

\* scandir(d): the names of the entries that are not directories
FilesIn(d) == {q[Len(q)] : q \in {r \in Paths : Present(r) /\ Len(r) = Len(d) + 1 /\ IsPrefix(d, r)}}

\* scandir(d): the names of the entries that are directories
SubdirsOf(d) ==
    {q[Len(d) + 1] : q \in {r \in Paths : Present(r) /\ Len(r) > Len(d) + 1 /\ IsPrefix(d, r)}}

\* The orders in which scandir can return a set of names.
Perms(S) ==
    {s \in [1..Cardinality(S) -> S] : \A i, j \in 1..Cardinality(S) : i # j => s[i] # s[j]}

Reverse(s) == [i \in 1..Len(s) |-> s[Len(s) + 1 - i]]

(***************************************************************************)
(* File contents                                                           *)
(***************************************************************************)
\* f.read(1024) of a file opened 'rb': the runs cut to the first w bytes
RECURSIVE Take(_, _)
Take(bytes, w) ==
    IF bytes = <<>> \/ w <= 0 THEN <<>>
    ELSE IF Head(bytes).n >= w THEN << [b |-> Head(bytes).b, n |-> w] >>
    ELSE <<Head(bytes)>> \o Take(Tail(bytes), w - Head(bytes).n)

\* b'\0' in chunk
HasNull(chunk) == \E i \in DOMAIN chunk : chunk[i].b = 0 /\ chunk[i].n > 0

\* open(file_path, 'rb') / open(file_path, 'r') succeeds
CanOpen(rel) == rel \in Paths /\ fs[rel].present /\ fs[rel].readable

\* f.read() of a file opened with encoding='utf-8', errors='replace' and
\* universal newlines: an invalid byte becomes U+FFFD, CR LF and CR become LF.
Decode(bytes) ==
    [i \in DOMAIN bytes |->
        IF bytes[i].b > 127 THEN [b |-> 65533, n |-> bytes[i].n]
        ELSE IF bytes[i].b = 13
             THEN [b |-> 10,
                   n |-> IF i < Len(bytes) /\ bytes[i + 1].b = 10
                         THEN bytes[i].n - 1 ELSE bytes[i].n]
        ELSE bytes[i]]

\* A faulty variant of is_text_file: a failed probe counts as text.
is_text_file_FailIsText(rel) ==
    IF CanOpen(rel) THEN ~HasNull(Take(fs[rel].bytes, ProbeWindow)) ELSE TRUE

\* A faulty variant of is_text_file: the null byte is not looked for.
is_text_file_NoNullTest(rel) == CanOpen(rel)

\* is_text_file(file_path)
is_text_file(rel) ==
    IF CanOpen(rel) THEN ~HasNull(Take(fs[rel].bytes, ProbeWindow)) ELSE FALSE

\* What the probe finds in the file, whatever is_text_file makes of it.
ProbeSees(rel) ==
    IF ~CanOpen(rel) THEN "failed"
    ELSE IF HasNull(Take(fs[rel].bytes, ProbeWindow)) THEN "binary"
    ELSE "text"

\* file_path.is_dir()
is_dir(rel) == rel # <<>> /\ DirExists(rel)

\* A faulty variant of ReservedName: only the prefix is tested.
ReservedName_PrefixOnly(file) == StartsWith(file, LLMIFY)

\* file.startswith('llmify') or file.endswith('.md.llm')
ReservedName(file) == StartsWith(file, LLMIFY) \/ EndsWith(file, MD_LLM)

(***************************************************************************)
(* Tokens of the document and lines of the diagnostics                     *)
(***************************************************************************)
Banner(k)     == [t |-> "banner", k |-> k]
Heading(rel)  == [t |-> "heading", path |-> rel]
Body(text)    == [t |-> "body", text |-> text]

Info(k)          == [t |-> "info", k |-> k]
Processed(rel)   == [t |-> "processed", path |-> rel]
ErrorLine(fp)    == [t |-> "error", path |-> fp]

NoProbe == [p \in Paths |-> "none"]

(***************************************************************************)
(* Initial states                                                          *)
(***************************************************************************)
Kinds == {k \in [Paths -> 0..4] : Cardinality({p \in Paths : k[p] # 0}) <= MaxFiles}

Trees == {[p \in Paths |-> FileState(p, k[p])] : k \in Kinds}

Init ==
    /\ rootOk \in BOOLEAN
    /\ fs \in Trees
    /\ rootOk = FALSE => fs = [p \in Paths |-> Absent]
    /\ sinkOk = TRUE
    /\ pc = "open"
    /\ walkStack = <<>>
    /\ curRoot = <<>>
    /\ pending = <<>>
    /\ all_files = <<>>
    /\ idx = 1
    /\ content = <<>>
    /\ doc = <<>>
    /\ out = <<>>
    /\ err = <<>>
    /\ probed = NoProbe
    /\ failedRead = {}
    /\ sinkErr = FALSE
    /\ runNo = 1
    /\ prevDoc = <<>>

envVars  == <<fs, rootOk, sinkOk>>
histVars == <<probed, failedRead, sinkErr>>
runVars  == <<runNo, prevDoc>>
walkVars == <<walkStack, curRoot, pending>>

(***************************************************************************)
(* main()                                                                  *)
(***************************************************************************)
\* The two prints, then open(output_path, 'w'), which truncates the file.
MainOpen ==
    /\ pc = "open"
    /\ out' = out \o <<Info("start"), Info("output")>>
    /\ IF sinkOk
       THEN /\ doc' = <<>>
            /\ pc' = "banner1"
       ELSE /\ pc' = "failed"
            /\ UNCHANGED doc
    /\ UNCHANGED <<envVars, histVars, runVars, walkVars, all_files, idx, content, err>>

\* output_file.write(title); a failure propagates out of main().
MainBanner1 ==
    /\ pc = "banner1"
    /\ IF sinkOk
       THEN /\ doc' = Append(doc, Banner(1))
            /\ pc' = "banner2"
            /\ UNCHANGED sinkErr
       ELSE /\ sinkErr' = TRUE
            /\ pc' = "failed"
            /\ UNCHANGED doc
    /\ UNCHANGED <<envVars, probed, failedRead, runVars, walkVars, all_files, idx,
                   content, out, err>>

\* output_file.write(description), then the call of process_directory().
MainBanner2 ==
    /\ pc = "banner2"
    /\ IF sinkOk
       THEN /\ doc' = Append(doc, Banner(2))
            /\ pc' = "walk"
            /\ walkStack' = << <<>> >>
            /\ all_files' = <<>>
            /\ UNCHANGED sinkErr
       ELSE /\ sinkErr' = TRUE
            /\ pc' = "failed"
            /\ UNCHANGED <<doc, walkStack, all_files>>
    /\ UNCHANGED <<envVars, probed, failedRead, runVars, curRoot, pending, idx,
                   content, out, err>>

(***************************************************************************)
(* process_directory(): the first loop                                     *)
(***************************************************************************)
\* os.walk lists the next directory; a directory it cannot list is skipped
\* (onerror is None).  The names come in any order.
WalkNext ==
    /\ pc = "walk"
    /\ pending = <<>>
    /\ walkStack # <<>>
    /\ LET top  == walkStack[Len(walkStack)]
           rest == SubSeq(walkStack, 1, Len(walkStack) - 1)
       IN IF ~DirExists(top)
          THEN /\ walkStack' = rest
               /\ UNCHANGED <<curRoot, pending>>
          ELSE \E files \in Perms(FilesIn(top)), dirs \in Perms(SubdirsOf(top)) :
                  /\ curRoot' = top
                  /\ pending' = files
                  /\ walkStack' = rest \o [i \in 1..Len(dirs) |-> top \o <<Reverse(dirs)[i]>>]
    /\ UNCHANGED <<envVars, histVars, runVars, pc, all_files, idx, content, doc, out, err>>

\* One pass of "for file in files".
FilterFile ==
    /\ pc = "walk"
    /\ pending # <<>>
    /\ LET file == Head(pending)
           rel  == curRoot \o <<file>>
           file_path == BaseDir \o rel
       IN /\ pending' = Tail(pending)
          /\ IF ReservedName(file)
             THEN /\ probed' = [probed EXCEPT ![rel] = "skipped"]
                  /\ UNCHANGED all_files
             ELSE IF is_dir(rel) \/ ~is_text_file(rel)
             THEN /\ probed' = [probed EXCEPT ![rel] =
                                 IF is_dir(rel) THEN "dir" ELSE ProbeSees(rel)]
                  /\ UNCHANGED all_files
             ELSE /\ probed' = [probed EXCEPT ![rel] = ProbeSees(rel)]
                  /\ all_files' = Append(all_files, file_path)
    /\ UNCHANGED <<envVars, failedRead, sinkErr, runVars, pc, walkStack, curRoot, idx,
                   content, doc, out, err>>

\* The walk is over: all_files.sort()
SortFiles ==
    /\ pc = "walk"
    /\ pending = <<>>
    /\ walkStack = <<>>
    /\ all_files' = SortPaths(all_files)
    /\ idx' = 1
    /\ pc' = "loop"
    /\ UNCHANGED <<envVars, histVars, runVars, walkVars, content, doc, out, err>>

(***************************************************************************)
(* process_directory(): the second loop                                    *)
(***************************************************************************)
\* A faulty variant of Except: the exception is swallowed without an error line.
Except_Silent(file_path) ==
    /\ idx' = idx + 1
    /\ pc' = "loop"
    /\ UNCHANGED err

\* The handler of "except Exception": the error line, then the next entry.
Except(file_path) ==
    /\ err' = Append(err, ErrorLine(file_path))
    /\ idx' = idx + 1
    /\ pc' = "loop"

\* rel_path = file_path.relative_to(base_dir); output_file.write(heading)
WriteHeading ==
    /\ pc = "loop"
    /\ idx <= Len(all_files)
    /\ LET file_path == all_files[idx]
       IN IF ~CanRelativeTo(file_path, BaseDir)
          THEN /\ Except(file_path)
               /\ UNCHANGED <<doc, sinkErr>>
          ELSE IF sinkOk
          THEN /\ doc' = Append(doc, Heading(RelativeTo(file_path, BaseDir)))
               /\ pc' = "read"
               /\ UNCHANGED <<idx, err, sinkErr>>
          ELSE /\ sinkErr' = TRUE
               /\ Except(file_path)
               /\ UNCHANGED doc
    /\ UNCHANGED <<envVars, probed, failedRead, runVars, walkVars, all_files, content, out>>

\* with open(file_path, 'r', ...) as f: content = f.read()
ReadContent ==
    /\ pc = "read"
    /\ LET file_path == all_files[idx]
           rel == RelativeTo(file_path, BaseDir)
       IN IF CanOpen(rel)
          THEN /\ content' = Decode(fs[rel].bytes)
               /\ pc' = "write"
               /\ UNCHANGED <<idx, err, failedRead>>
          ELSE /\ failedRead' = failedRead \cup {rel}
               /\ Except(file_path)
               /\ UNCHANGED content
    /\ UNCHANGED <<envVars, probed, sinkErr, runVars, walkVars, all_files, doc, out>>

\* output_file.write(content); print("Processed: ...")
WriteContent ==
    /\ pc = "write"
    /\ LET file_path == all_files[idx]
           rel == RelativeTo(file_path, BaseDir)
       IN IF sinkOk
          THEN /\ doc' = Append(doc, Body(content))
               /\ out' = Append(out, Processed(rel))
               /\ idx' = idx + 1
               /\ pc' = "loop"
               /\ UNCHANGED <<err, sinkErr>>
          ELSE /\ sinkErr' = TRUE
               /\ Except(file_path)
               /\ UNCHANGED <<doc, out>>
    /\ UNCHANGED <<envVars, probed, failedRead, runVars, walkVars, all_files, content>>

\* process_directory() returns; main() closes the output and prints "Done!".
Return ==
    /\ pc = "loop"
    /\ idx > Len(all_files)
    /\ out' = Append(out, Info("done"))
    /\ pc' = "done"
    /\ UNCHANGED <<envVars, histVars, runVars, walkVars, all_files, idx, content, doc, err>>

(***************************************************************************)
(* The environment                                                         *)
(***************************************************************************)
Running == pc \notin {"done", "failed"}

\* Another process deletes a file during the run.
Delete(p) ==
    /\ Running
    /\ Present(p)
    /\ fs' = [fs EXCEPT ![p] = Absent]
    /\ UNCHANGED <<rootOk, sinkOk, histVars, runVars, walkVars, pc, all_files, idx,
                   content, doc, out, err>>

\* Another process overwrites a file with binary data during the run.
Corrupt(p) ==
    /\ Running
    /\ Present(p)
    /\ fs[p].bytes # BinBytes
    /\ fs' = [fs EXCEPT ![p].bytes = BinBytes]
    /\ UNCHANGED <<rootOk, sinkOk, histVars, runVars, walkVars, pc, all_files, idx,
                   content, doc, out, err>>

\* The output device fills up: from now on every write raises OSError.
SinkFail ==
    /\ Running
    /\ sinkOk
    /\ sinkOk' = FALSE
    /\ UNCHANGED <<fs, rootOk, histVars, runVars, walkVars, pc, all_files, idx,
                   content, doc, out, err>>

\* main() is run again on the same tree.
Rerun ==
    /\ pc = "done"
    /\ runNo = 1
    /\ runNo' = 2
    /\ prevDoc' = doc
    /\ pc' = "open"
    /\ walkStack' = <<>>
    /\ curRoot' = <<>>
    /\ pending' = <<>>
    /\ all_files' = <<>>
    /\ idx' = 1
    /\ content' = <<>>
    /\ out' = <<>>
    /\ err' = <<>>
    /\ probed' = NoProbe
    /\ failedRead' = {}
    /\ sinkErr' = FALSE
    /\ UNCHANGED <<envVars, doc>>

(***************************************************************************)
(* Specifications                                                          *)
(***************************************************************************)
\* Some file is deleted / overwritten.
DeleteAny == \E p \in Paths : Delete(p)
CorruptAny == \E p \in Paths : Corrupt(p)

\* One run, with a tree that changes under it and a sink that can fail.
Next ==
    \/ MainOpen
    \/ MainBanner1
    \/ MainBanner2
    \/ WalkNext
    \/ FilterFile
    \/ SortFiles
    \/ WriteHeading
    \/ ReadContent
    \/ WriteContent
    \/ Return
    \/ DeleteAny
    \/ CorruptAny
    \/ SinkFail

Spec == Init /\ [][Next]_vars

\* One run on a fixed tree, with a sink that can fail.
NextSink ==
    \/ MainOpen
    \/ MainBanner1
    \/ MainBanner2
    \/ WalkNext
    \/ FilterFile
    \/ SortFiles
    \/ WriteHeading
    \/ ReadContent
    \/ WriteContent
    \/ Return
    \/ SinkFail

SpecSink == Init /\ [][NextSink]_vars

\* Two runs on a fixed tree, with a sink that works.
NextFixed ==
    \/ MainOpen
    \/ MainBanner1
    \/ MainBanner2
    \/ WalkNext
    \/ FilterFile
    \/ SortFiles
    \/ WriteHeading
    \/ ReadContent
    \/ WriteContent
    \/ Return
    \/ Rerun

SpecFixed == Init /\ [][NextFixed]_vars

(***************************************************************************)
(* Reading the document                                                    *)
(***************************************************************************)
IsHeading(i) == doc[i].t = "heading"

\* The positions of the section headings of the document.
HeadingAt == {i \in DOMAIN doc : IsHeading(i)}

\* The positions of the sections headed by the relative path p.
SectionsOf(p) == {i \in HeadingAt : doc[i].path = p}

HasSection(p) == SectionsOf(p) # {}

\* The text between the heading at i and the next heading.
BodyAt(i) == IF i < Len(doc) /\ doc[i + 1].t = "body" THEN doc[i + 1].text ELSE <<>>

FileName(p) == p[Len(p)]

ErrorLinesOf(p) == {i \in DOMAIN err : err[i] = ErrorLine(BaseDir \o p)}
ProcessedLinesOf(p) == {i \in DOMAIN out : out[i] = Processed(p)}
ProcessedLines == {i \in DOMAIN out : out[i].t = "processed"}

\* The files collected by the first loop, as relative paths.
Collected == {RelativeTo(all_files[i], BaseDir) : i \in DOMAIN all_files}

\* A regular file the run can open, without a null byte in its first 1024
\* bytes, whose name is not reserved.
Eligible(p) ==
    /\ fs[p].present
    /\ fs[p].readable
    /\ ~HasNull(Take(fs[p].bytes, ProbeWindow))
    /\ ~StartsWith(FileName(p), LLMIFY)
    /\ ~EndsWith(FileName(p), MD_LLM)

(***************************************************************************)
(* The claims                                                              *)
(***************************************************************************)
\* C1: after process_directory returns, every eligible file of the tree has
\* exactly one section, headed by its relative path, whose body is the file's
\* decoded content, and no other path has a section.
C1_Completeness ==
    pc = "done" =>
        \A p \in Paths :
            IF Eligible(p)
            THEN /\ Cardinality(SectionsOf(p)) = 1
                 /\ \A i \in SectionsOf(p) : BodyAt(i) = Decode(fs[p].bytes)
            ELSE ~HasSection(p)

\* C2: an entry whose content read fails is skipped: the run does not abort,
\* exactly one error line names the entry, the document has neither heading
\* nor body for it, and the other collected files are still included.
C2_UnreadableSkipped ==
    /\ \A p \in failedRead :
          /\ pc # "failed"
          /\ Cardinality(ErrorLinesOf(p)) = 1
          /\ ~HasSection(p)
    /\ (pc = "done" /\ ~sinkErr) =>
          \A q \in Collected \ failedRead : HasSection(q)

\* C3: once a write to the output sink has raised, the run is aborted and the
\* fault has propagated to the caller; no later entry is processed.
C3_SinkFailureFatal == sinkErr => pc = "failed"

\* C4: when base_dir does not exist the run never completes normally.
C4_MissingRootFails == ~rootOk => pc # "done"

\* C5 (as claimed): the sections are in strictly ascending order of the path
\* strings, compared code point by code point.
C5_StringOrder ==
    \A i, j \in HeadingAt :
        i < j => StrLess(PathStr(doc[i].path), PathStr(doc[j].path))

\* C5 (amended): the sections are in strictly ascending order of their
\* relative paths compared component by component, each component compared
\* code point by code point.
C5_ComponentOrder ==
    \A i, j \in HeadingAt : i < j => PathLess(doc[i].path, doc[j].path)

\* a/b is written before a.txt.
C5_Witness ==
    /\ pc = "done"
    /\ \E i, j \in HeadingAt :
          /\ i < j
          /\ doc[i].path = <<NameA, NameB>>
          /\ doc[j].path = <<NameATxt>>

\* C6 (as claimed): no file that has a null byte in its first 1024 bytes is in
\* the document as a section with its content, whatever happens to the file
\* between the probe and the content read.
C6_NoBinarySection ==
    \A p \in Paths :
        (fs[p].present /\ HasNull(Take(fs[p].bytes, ProbeWindow))) =>
            ~\E i \in SectionsOf(p) :
                /\ i < Len(doc)
                /\ doc[i + 1] = Body(Decode(fs[p].bytes))

\* C6 (amended): a file in whose first 1024 bytes the classification probe
\* found a null byte never appears as a section.
C6_ProbedBinaryExcluded ==
    \A p \in Paths : probed[p] = "binary" => (~HasSection(p) /\ p \notin Collected)

\* A run that probed a binary file and wrote a section for another file.
C6_Witness ==
    /\ pc = "done"
    /\ \E p, q \in Paths : probed[p] = "binary" /\ HasSection(q)

\* C7: no section is headed by a path whose filename starts with 'llmify' or
\* ends with '.md.llm'; the first loop skips an entry for its name exactly when
\* its filename does, whatever the directories above it are called.
C7_SelfExclusion ==
    /\ \A i \in HeadingAt :
          /\ ~StartsWith(FileName(doc[i].path), LLMIFY)
          /\ ~EndsWith(FileName(doc[i].path), MD_LLM)
    /\ \A p \in Paths :
          probed[p] # "none" =>
             (probed[p] = "skipped" <=>
                (StartsWith(FileName(p), LLMIFY) \/ EndsWith(FileName(p), MD_LLM)))

\* llmify.py is a readable text file without a section, llmify/c has one.
C7_Witness ==
    /\ pc = "done"
    /\ probed[<<NameTool>>] = "skipped"
    /\ fs[<<NameTool>>].readable
    /\ ~HasNull(Take(fs[<<NameTool>>].bytes, ProbeWindow))
    /\ ~HasSection(<<NameTool>>)
    /\ HasSection(<<LLMIFY, NameC>>)

\* C8: the second run on the same tree writes the document of the first.
C8_Determinism == (runNo = 2 /\ pc = "done") => doc = prevDoc

\* The second run is over and wrote two sections.
C8_Witness ==
    /\ runNo = 2
    /\ pc = "done"
    /\ Cardinality(HeadingAt) = 2

\* C9: an entry whose probe failed has no section and no error line, is not
\* collected, and the failure does not abort the run.
C9_ProbeFailureSilent ==
    \A p \in Paths :
        probed[p] = "failed" =>
            /\ ~HasSection(p)
            /\ ErrorLinesOf(p) = {}
            /\ p \notin Collected
            /\ pc # "failed"

\* The probe of one entry failed and the run went on to write another file.
C9_Witness ==
    /\ pc = "done"
    /\ err = <<>>
    /\ \E p, q \in Paths : probed[p] = "failed" /\ HasSection(q)

\* C10: every entry the second loop is done with has exactly one diagnostic
\* line, a Processed line or an Error line; a Processed line is there only
\* when the entry's heading and content are in the document; the lines are as
\* many as the entries done.
C10_OneLinePerEntry ==
    /\ Cardinality(ProcessedLines) + Len(err) = idx - 1
    /\ pc = "done" => Cardinality(ProcessedLines) + Len(err) = Len(all_files)
    /\ \A k \in DOMAIN all_files :
          LET p == RelativeTo(all_files[k], BaseDir)
          IN IF k < idx
             THEN Cardinality(ProcessedLinesOf(p)) + Cardinality(ErrorLinesOf(p)) = 1
             ELSE ProcessedLinesOf(p) = {} /\ ErrorLinesOf(p) = {}
    /\ \A n \in ProcessedLines :
          \E i \in SectionsOf(out[n].path) : i < Len(doc) /\ doc[i + 1].t = "body"

\* A finished run with one Processed line and one Error line.
C10_Witness ==
    /\ pc = "done"
    /\ Cardinality(ProcessedLines) = 1
    /\ Len(err) = 1

====
